---- MODULE Spec2Model ----
(***************************************************************************)
(* Model of weatherbulletin.py: the Met Office forecast aggregator, the    *)
(* weather-code phrase renderer, the four-template bulletin composer and   *)
(* the retrying feed fetch that precedes them.                             *)
(*                                                                         *)
(* Conventions.  A timestamp "YYYY-MM-DDTHH:MMZ" is the record             *)
(* [date, hour]: date stands for its first ten characters (the day         *)
(* number) and hour for characters 11..12.  Temperatures are held in       *)
(* tenths of a degree so that round() is a real conversion.  Python        *)
(* strings are TLA+ strings, concatenated with \o.                         *)
(***************************************************************************)
EXTENDS Integers, Sequences, FiniteSets, TLC

VARIABLES pc, clock, ticks, now, retries, success, attempts, data,
          forecast, temps, today, tomorrow, log, bulletin, audio, call

vars == <<pc, clock, ticks, now, retries, success, attempts, data,
          forecast, temps, today, tomorrow, log, bulletin, audio, call>>

(***************************************************************************)
(* Bounds of the model.                                                    *)
(***************************************************************************)
\* longest code list handed to the renderer in the renderer's own specification
MaxCodes == 5
\* most observations in one feed response
MaxObs == 3
\* longest series handed to the aggregator in the aggregator's own specification
MaxSeries == 3
\* most hour boundaries the wall clock crosses during one invocation
MaxTicks == 1

(***************************************************************************)
(* WeatherCodeCatalog: metoffice_weather_codes_to_str's tables.            *)
(***************************************************************************)
values ==
    [c \in (0..30) \ {4} |->
        CASE c = 0 -> "Clear"
          [] c = 1 -> "Clear and sunny"
          [] c = 2 -> "Partially cloudy"
          [] c = 3 -> "Sunny with a few clouds"
          [] c = 5 -> "Misty"
          [] c = 6 -> "Foggy"
          [] c = 7 -> "Cloudy skies"
          [] c = 8 -> "Overcast"
          [] c \in {9, 10} -> "Light rain showers"
          [] c = 11 -> "Drizzle"
          [] c = 12 -> "Light rain"
          [] c \in {13, 14} -> "Heavy rain showers"
          [] c = 15 -> "Heavy rain"
          [] c \in {16, 17} -> "Sleet showers"
          [] c = 18 -> "Sleet"
          [] c \in {19, 20} -> "Hail showers"
          [] c = 21 -> "Hail"
          [] c \in {22, 23} -> "Light snow showers"
          [] c = 24 -> "Light snow"
          [] c \in {25, 26} -> "Heavy snow showers"
          [] c = 27 -> "Heavy snow"
          [] c \in {28, 29} -> "Thunder showers"
          [] c = 30 -> "Thunder"]

\* values.get(code, "Some weather")
values_get(code) ==
    IF code \in DOMAIN values THEN values[code] ELSE "Some weather"

day_skip_codes == {1, 2, 3, 4, 5, 6, 7, 8, 11, 12, 15, 18, 21, 24, 27, 30}

night_skip_codes == {0, 9, 10, 13, 14, 16, 17, 19, 20, 22, 23, 25, 26, 28, 29}

\* if part == "night": day_skip_codes  elif part == "day": night_skip_codes;
\* there is no else, so for any other part the name stays unbound
codes_to_skip(part) ==
    IF part = "night" THEN [bound |-> TRUE, codes |-> day_skip_codes]
    ELSE IF part = "day" THEN [bound |-> TRUE, codes |-> night_skip_codes]
    ELSE [bound |-> FALSE, codes |-> {}]

(***************************************************************************)
(* Python list helpers.                                                    *)
(***************************************************************************)
\* x in lst
list_contains(lst, x) == \E k \in 1..Len(lst) : lst[k] = x

\* lst.remove(x): drops the first occurrence of x
list_remove(lst, x) ==
    LET k == CHOOSE j \in 1..Len(lst) :
                 lst[j] = x /\ \A m \in 1..(j - 1) : lst[m] # x
    IN  SubSeq(lst, 1, k - 1) \o SubSeq(lst, k + 1, Len(lst))

(***************************************************************************)
(* metoffice_weather_codes_to_str, step 1: the pruning loop.  copy is the  *)
(* snapshot codes[:] being iterated, codes the caller's list, mutated.     *)
(***************************************************************************)
RECURSIVE mut_dedup_loop(_, _)
\* dedup_loop without the removal of code 2
mut_dedup_loop(copy, codes) ==
    IF copy = <<>> THEN codes
    ELSE LET code == Head(copy)
             c1 == IF code = 7 /\ list_contains(codes, 3)
                   THEN list_remove(codes, 7) ELSE codes
         IN  mut_dedup_loop(Tail(copy), c1)

RECURSIVE dedup_loop(_, _)
dedup_loop(copy, codes) ==
    IF copy = <<>> THEN codes
    ELSE LET code == Head(copy)
             c1 == IF code = 7 /\ list_contains(codes, 3)
                   THEN list_remove(codes, 7) ELSE codes
             c2 == IF code = 2 /\ list_contains(c1, 3)
                   THEN list_remove(c1, 2) ELSE c1
         IN  dedup_loop(Tail(copy), c2)

\* the caller's list as the function leaves it
pruned(codes) == dedup_loop(codes, codes)

(***************************************************************************)
(* Step 2 and 3: the rendering loop over the pruned list.  acc carries the *)
(* string built so far (weather), the counter i, and, for the properties,  *)
(* the codes narrated and the separator written before each of them.  The  *)
(* first pass of the loop reads codes_to_skip: unbound, it raises          *)
(* UnboundLocalError and nothing is returned.                              *)
(***************************************************************************)
\* separator with " and " repeated before the fourth and later codes
mut_separator(i, n) ==
    IF i = 2 /\ n >= 2 THEN ", with "
    ELSE IF i >= 3 /\ n >= 3 THEN " and "
    ELSE ""

\* the separator written before the i-th narrated code of a list of n
separator(i, n) ==
    IF i = 2 /\ n >= 2 THEN ", with "
    ELSE IF i = 3 /\ n >= 3 THEN " and "
    ELSE ""

RECURSIVE render_loop(_, _, _, _)
render_loop(codes, skip, k, acc) ==
    IF k > Len(codes) THEN acc
    ELSE IF ~skip.bound THEN [acc EXCEPT !.error = "UnboundLocalError"]
    ELSE IF codes[k] \in skip.codes THEN render_loop(codes, skip, k + 1, acc)
    ELSE LET i   == acc.i + 1
             sep == separator(i, Len(codes))
         IN  render_loop(codes, skip, k + 1,
                 [weather |-> acc.weather \o sep \o values_get(codes[k]),
                  i       |-> i,
                  spoken  |-> Append(acc.spoken, codes[k]),
                  seps    |-> Append(acc.seps, sep),
                  error   |-> acc.error])

render(codes, part) ==
    render_loop(pruned(codes), codes_to_skip(part), 1,
                [weather |-> "", i |-> 0, spoken |-> <<>>, seps |-> <<>>,
                 error |-> ""])

\* the returned string
metoffice_weather_codes_to_str(codes, part) == render(codes, part).weather

(***************************************************************************)
(* The feed.  Observations are drawn from a fixed time-ordered sample of   *)
(* three-hourly records over two dates (day 0 is the day the program       *)
(* starts on); a response is any time-ordered selection of at most MaxObs  *)
(* of them, the empty one included.                                        *)
(***************************************************************************)
Obs(d, h, code, tmax, tmin, uv, rain) ==
    [time |-> [date |-> d, hour |-> h],
     maxScreenAirTemp |-> tmax, minScreenAirTemp |-> tmin,
     significantWeatherCode |-> code, uvIndex |-> uv, probOfRain |-> rain]

SampleSeries ==
    << Obs(0,  6,  3, 105,  92, 1,  5),
       Obs(0,  9,  7, 124, 101, 2, 10),
       Obs(0, 12,  3, 135, 120, 4,  0),
       Obs(0, 15, 12, 150, 131, 3, 60),
       Obs(0, 18,  0, 118, 104, 0,  5),
       Obs(0, 21,  3,  96,  88, 0,  0),
       Obs(1,  0,  8,  85,  79, 0, 20),
       Obs(1,  3,  9,  72,  65, 0, 70),
       Obs(1,  9,  1, 110,  95, 2,  0),
       Obs(1, 12,  1, 145, 128, 5,  0),
       Obs(1, 15,  7, 131, 117, 3, 15) >>

RECURSIVE pick(_, _)
\* the entries of SampleSeries whose positions are in S, in series order
pick(S, k) ==
    IF k > Len(SampleSeries) THEN <<>>
    ELSE (IF k \in S THEN <<SampleSeries[k]>> ELSE <<>>) \o pick(S, k + 1)

Feeds ==
    { pick(S, 1) : S \in { T \in SUBSET (1..Len(SampleSeries)) :
                               Cardinality(T) <= MaxObs } }

(***************************************************************************)
(* Arithmetic helpers.                                                     *)
(***************************************************************************)
SetMax(S) == CHOOSE x \in S : \A y \in S : y <= x

SetMin(S) == CHOOSE x \in S : \A y \in S : x <= y

\* Python round() of a value given in tenths: to nearest, ties to even
round(t) ==
    LET q == t \div 10
        r == t % 10
    IN  IF r < 5 THEN q
        ELSE IF r > 5 THEN q + 1
        ELSE IF q % 2 = 0 THEN q ELSE q + 1

RECURSIVE sorted(_)
\* sorted(set(...)): the members of S in ascending order
sorted(S) ==
    IF S = {} THEN <<>>
    ELSE LET m == SetMin(S) IN <<m>> \o sorted(S \ {m})

Range(seq) == { seq[k] : k \in 1..Len(seq) }

(***************************************************************************)
(* MetOfficeWeatherForecast.                                               *)
(***************************************************************************)
\* entry["time"][:10]
date_of(entry) == entry.time.date

\* _get_daily_data: date -> the entries of that date, in feed order
_get_daily_data(series) ==
    [d \in { date_of(series[k]) : k \in 1..Len(series) } |->
        SelectSeq(series, LAMBDA e : date_of(e) = d)]

\* _calculate_high_low
_calculate_high_low(tempset) == [max |-> SetMax(tempset), min |-> SetMin(tempset)]

\* _determine_day_part with the boundaries of _get_day_periods (scheme A)
mut_determine_day_part(the_time) ==
    LET hour == the_time.hour
    IN  IF 7 <= hour /\ hour < 12 THEN "morning"
        ELSE IF 12 <= hour /\ hour < 17 THEN "afternoon"
        ELSE IF 17 <= hour /\ hour < 24 THEN "evening"
        ELSE "overnight"

\* scheme B
_determine_day_part(the_time) ==
    LET hour == the_time.hour
    IN  IF 6 <= hour /\ hour < 12 THEN "morning"
        ELSE IF 12 <= hour /\ hour < 18 THEN "afternoon"
        ELSE IF 18 <= hour /\ hour < 24 THEN "evening"
        ELSE "overnight"

_get_weather_for_day(entries) ==
    [max_temp     |-> round(SetMax({ e.maxScreenAirTemp : e \in Range(entries) })),
     min_temp     |-> round(SetMin({ e.minScreenAirTemp : e \in Range(entries) })),
     weather_code |-> sorted({ e.significantWeatherCode : e \in Range(entries) }),
     uv_index     |-> SetMax({ e.uvIndex : e \in Range(entries) }),
     prob_of_rain |-> SetMax({ e.probOfRain : e \in Range(entries) })]

\* day_parts of one date: day-part -> entries
day_parts_of(day_data) ==
    [p \in { _determine_day_part(e.time) : e \in Range(day_data) } |->
        SelectSeq(day_data, LAMBDA e : _determine_day_part(e.time) = p)]

get_day_periods_weather(series) ==
    LET daily_data == _get_daily_data(series)
    IN  [d \in DOMAIN daily_data |->
            LET day_parts == day_parts_of(daily_data[d])
            IN  [p \in DOMAIN day_parts |-> _get_weather_for_day(day_parts[p])]]

get_highs_lows(series) ==
    LET daily_data == _get_daily_data(series)
    IN  [d \in DOMAIN daily_data |->
            LET hl == _calculate_high_low(
                          { e.maxScreenAirTemp : e \in Range(daily_data[d]) })
            IN  [high |-> round(hl.max), low |-> round(hl.min)]]

(***************************************************************************)
(* bulletin_metoffice: template selection, index lookups, text.            *)
(***************************************************************************)
\* template with the morning branch kept through hour 11
mut_template(hour) ==
    IF hour >= 5 /\ hour <= 11 THEN "morning"
    ELSE IF hour >= 11 /\ hour < 17 THEN "afternoon"
    ELSE IF hour >= 17 /\ hour < 24 THEN "evening"
    ELSE "overnight"

\* the if / elif chain on now.hour
template(hour) ==
    IF hour >= 5 /\ hour < 11 THEN "morning"
    ELSE IF hour >= 11 /\ hour < 17 THEN "afternoon"
    ELSE IF hour >= 17 /\ hour < 24 THEN "evening"
    ELSE "overnight"

Req(d, dp, part) == [date |-> d, day_part |-> dp, part |-> part]

\* the forecast[date][day_part]["weather_code"] subscripts of a branch, in
\* evaluation order, each with the part its codes are rendered for
lookups(tpl, td, tm) ==
    CASE tpl = "morning" ->
           << Req(td, "morning", "day"), Req(td, "afternoon", "day") >>
      [] tpl = "afternoon" ->
           << Req(td, "afternoon", "day"), Req(td, "evening", "day") >>
      [] tpl = "evening" ->
           << Req(td, "evening", "day"), Req(tm, "overnight", "night"),
              Req(tm, "morning", "day") >>
      [] tpl = "overnight" ->
           << Req(tm, "overnight", "night"), Req(tm, "morning", "day"),
              Req(tm, "afternoon", "day") >>

\* the date of the temps[...] subscript of a branch
temps_date(tpl, td, tm) ==
    IF tpl \in {"morning", "afternoon"} THEN td ELSE tm

\* weather_forecast[date]: a defaultdict(dict) creates the missing date
defaultdict_get(fc, d) ==
    IF d \in DOMAIN fc THEN fc ELSE (d :> <<>>) @@ fc

\* dict_get that yields an empty summary for an absent day-part
mut_dict_get(day, day_part) ==
    IF day_part \in DOMAIN day
    THEN [ok |-> TRUE, codes |-> day[day_part].weather_code]
    ELSE [ok |-> TRUE, codes |-> <<>>]

\* day[day_part] on the plain inner dict: KeyError when absent
dict_get(day, day_part) ==
    IF day_part \in DOMAIN day
    THEN [ok |-> TRUE, codes |-> day[day_part].weather_code]
    ELSE [ok |-> FALSE, codes |-> <<>>]

RECURSIVE lookup_loop(_, _, _, _)
\* evaluates the subscripts and renders each code list, which prunes the
\* list held by the index; stops at the first KeyError
lookup_loop(fc, reqs, k, phrases) ==
    IF k > Len(reqs) THEN [ok |-> TRUE, forecast |-> fc, phrases |-> phrases]
    ELSE LET r   == reqs[k]
             fc1 == defaultdict_get(fc, r.date)
             got == dict_get(fc1[r.date], r.day_part)
         IN  IF ~got.ok
             THEN [ok |-> FALSE, forecast |-> fc1, phrases |-> phrases]
             ELSE LET fc2 == IF r.day_part \in DOMAIN fc1[r.date]
                             THEN [fc1 EXCEPT ![r.date][r.day_part].weather_code =
                                                  pruned(got.codes)]
                             ELSE fc1
                  IN  lookup_loop(fc2, reqs, k + 1,
                          Append(phrases,
                                 metoffice_weather_codes_to_str(got.codes, r.part)))

\* str() of an int inside an f-string
str_int(n) == ToString(n)

\* str() of the {"high": .., "low": ..} dict inside an f-string
str_dict(hl) ==
    "{'high': " \o ToString(hl.high) \o ", 'low': " \o ToString(hl.low) \o "}"

\* same_phrase that never finds two phrases equal
mut_same_phrase(a, b) == FALSE

\* the == tests between two rendered phrases
same_phrase(a, b) == a = b

\* the bulletin, one string per assignment or += of the branch
morning_bulletin(ph, peak_temp) ==
    << ph[1] \o " this morning, ",
       IF same_phrase(ph[1], ph[2])
       THEN "staying much the same throughout the afternoon in North East Somerset, "
       ELSE ph[2] \o " across North East Somerset this afternoon ",
       "with temperatures reaching " \o str_dict(peak_temp) \o " degrees." >>

afternoon_bulletin(ph, peak_temp) ==
    << ph[1] \o " this afternoon",
       IF same_phrase(ph[1], ph[2])
       THEN ", continuing into the evening"
       ELSE ", " \o ph[2] \o " later into the evening",
       ". Highs across North East Somerset of " \o str_int(peak_temp.high)
           \o " degrees." >>

evening_bulletin(ph, temps_tomorrow) ==
    << ph[1] \o " this evening. ",
       ph[2] \o " overnight with lows of " \o str_int(temps_tomorrow.low)
           \o " degrees. ",
       "Tomorrow we will expect " \o ph[3] \o " with highs of "
           \o str_int(temps_tomorrow.high) \o "." >>

overnight_bulletin(ph, temps_tomorrow) ==
    << ph[1] \o " overnight with lows of " \o str_int(temps_tomorrow.low)
           \o " degrees. " >>
    \o (IF same_phrase(ph[2], ph[3])
        THEN << "Tomorrow we are expecting " \o ph[2] \o ", ",
                "with temperatures reaching highs of "
                    \o str_int(temps_tomorrow.high) \o " degrees." >>
        ELSE << "Tomorrow morning will start with " \o ph[2] \o ", ",
                ph[3] \o " later on, highs of "
                    \o str_int(temps_tomorrow.high) \o "." >>)

branch_bulletin(tpl, ph, t) ==
    CASE tpl = "morning"   -> morning_bulletin(ph, t)
      [] tpl = "afternoon" -> afternoon_bulletin(ph, t)
      [] tpl = "evening"   -> evening_bulletin(ph, t)
      [] tpl = "overnight" -> overnight_bulletin(ph, t)

RECURSIVE Join(_)
\* the string the pieces add up to
Join(pieces) ==
    IF pieces = <<>> THEN "" ELSE Head(pieces) \o Join(Tail(pieces))

\* the branch taken at hour: its outcome, the index as it leaves it and,
\* when no subscript failed, the bulletin
compose(hour, fc, tp, td, tm) ==
    LET tpl == template(hour)
        res == lookup_loop(fc, lookups(tpl, td, tm), 1, <<>>)
        d   == temps_date(tpl, td, tm)
    IN  IF res.ok /\ d \in DOMAIN tp
        THEN [ok |-> TRUE, forecast |-> res.forecast,
              bulletin |-> branch_bulletin(tpl, res.phrases, tp[d])]
        ELSE [ok |-> FALSE, forecast |-> res.forecast, bulletin |-> <<>>]

(***************************************************************************)
(* The program as a state machine: one run of main().                      *)
(*   pc: start -> fetch -> fetched -> indexed -> today -> dated            *)
(*          -> composed -> done,  fetch -> sleep -> fetch,  sleep -> exit, *)
(*          dated -> KeyError                                              *)
(***************************************************************************)
\* retries_init with one retry too many
mut_retries_init == 5 + 1

\* retries = 5
retries_init == 5

NoTime == [day |-> 0 - 1, hour |-> 0 - 1]

NoDate == 0 - 1

NoCall == [pc |-> "none", input |-> <<>>, part |-> "day", codes |-> <<>>,
           weather |-> "", spoken |-> <<>>, seps |-> <<>>, error |-> ""]

\* the wall clock one hour boundary later
advance(c) ==
    IF c.hour = 23 THEN [day |-> c.day + 1, hour |-> 0]
    ELSE [day |-> c.day, hour |-> c.hour + 1]

Init ==
    /\ pc = "start"
    /\ clock \in [day : {0}, hour : 0..23]
    /\ ticks = 0
    /\ now = NoTime
    /\ retries = 0
    /\ success = FALSE
    /\ attempts = 0
    /\ data = <<>>
    /\ forecast = <<>>
    /\ temps = <<>>
    /\ today = NoDate
    /\ tomorrow = NoDate
    /\ log = ""
    /\ bulletin = <<>>
    /\ audio = <<>>
    /\ call = NoCall

\* bulletin_metoffice reads the clock into now and calls
\* get_metoffice_forecast, which sets success and retries
Start ==
    /\ pc = "start"
    /\ now' = clock
    /\ success' = FALSE
    /\ retries' = retries_init
    /\ pc' = "fetch"
    /\ UNCHANGED <<clock, ticks, attempts, data, forecast, temps, today,
                   tomorrow, log, bulletin, audio, call>>

\* the wall clock crosses an hour boundary while the fetch is under way
\* (a request or the sleep after a failed one) or between the two later
\* clock readings
Tick ==
    /\ pc \in {"fetch", "sleep", "today"}
    /\ ticks < MaxTicks
    /\ ticks' = ticks + 1
    /\ clock' = advance(clock)
    /\ UNCHANGED <<pc, now, retries, success, attempts, data, forecast, temps,
                   today, tomorrow, log, bulletin, audio, call>>

\* one pass of the while loop in which requests.get returns
RequestOk ==
    /\ pc = "fetch"
    /\ ~success /\ retries > 0
    /\ attempts' = attempts + 1
    /\ success' = TRUE
    /\ pc' = "fetched"
    /\ UNCHANGED <<clock, ticks, now, retries, data, forecast, temps, today,
                   tomorrow, log, bulletin, audio, call>>

\* one pass of the while loop in which requests.get raises
\* RequestException: retries -= 1, then time.sleep(10) begins
RequestFail ==
    /\ pc = "fetch"
    /\ ~success /\ retries > 0
    /\ attempts' = attempts + 1
    /\ retries' = retries - 1
    /\ pc' = "sleep"
    /\ UNCHANGED <<clock, ticks, now, success, data, forecast, temps, today,
                   tomorrow, log, bulletin, audio, call>>

\* time.sleep(10) returns: sys.exit() when retries == 0, else the loop test
Sleep ==
    /\ pc = "sleep"
    /\ pc' = IF retries = 0 THEN "exit" ELSE "fetch"
    /\ UNCHANGED <<clock, ticks, now, retries, success, attempts, data, forecast,
                   temps, today, tomorrow, log, bulletin, audio, call>>

\* get_metoffice_forecast returns req.text and its locals go; the text is
\* parsed and the index and the daily highs and lows are built
Aggregate ==
    /\ pc = "fetched"
    /\ \E feed \in Feeds :
          /\ data' = feed
          /\ forecast' = get_day_periods_weather(feed)
          /\ temps' = get_highs_lows(feed)
    /\ retries' = 0
    /\ success' = FALSE
    /\ attempts' = 0
    /\ pc' = "indexed"
    /\ UNCHANGED <<clock, ticks, now, today, tomorrow, log, bulletin, audio, call>>

\* today = datetime.now().strftime("%Y-%m-%d")
ReadToday ==
    /\ pc = "indexed"
    /\ today' = clock.day
    /\ pc' = "today"
    /\ UNCHANGED <<clock, ticks, now, retries, success, attempts, data, forecast,
                   temps, tomorrow, log, bulletin, audio, call>>

\* tomorrow = (datetime.now() + timedelta(days=1)).strftime("%Y-%m-%d")
ReadTomorrow ==
    /\ pc = "today"
    /\ tomorrow' = clock.day + 1
    /\ pc' = "dated"
    /\ UNCHANGED <<clock, ticks, now, retries, success, attempts, data, forecast,
                   temps, today, log, bulletin, audio, call>>

\* the branch on now.hour; a KeyError leaves bulletin_metoffice and main
Compose ==
    /\ pc = "dated"
    /\ LET r == compose(now.hour, forecast, temps, today, tomorrow)
       IN  /\ log' = "Generating " \o template(now.hour) \o " bulletin"
           /\ forecast' = r.forecast
           /\ bulletin' = r.bulletin
           /\ pc' = IF r.ok THEN "composed" ELSE "KeyError"
    /\ UNCHANGED <<clock, ticks, now, retries, success, attempts, data, temps,
                   today, tomorrow, audio, call>>

\* main hands the returned bulletin to generate_audio
GenerateAudio ==
    /\ pc = "composed"
    /\ audio' = <<Join(bulletin)>>
    /\ pc' = "done"
    /\ UNCHANGED <<clock, ticks, now, retries, success, attempts, data, forecast,
                   temps, today, tomorrow, log, bulletin, call>>

Next ==
    \/ Start
    \/ Tick
    \/ RequestOk
    \/ RequestFail
    \/ Sleep
    \/ Aggregate
    \/ ReadToday
    \/ ReadTomorrow
    \/ Compose
    \/ GenerateAudio

Spec == Init /\ [][Next]_vars

(***************************************************************************)
(* The renderer on its own: one call on any list of at most MaxCodes       *)
(* codes, repeats allowed, for either part or for a part that is neither.  *)
(***************************************************************************)
RenderParts == {"day", "night", "dusk"}

RenderCodes == {1, 2, 3, 7, 9, 12, 15, 31}

CodeLists == UNION { [1..n -> RenderCodes] : n \in 0..MaxCodes }

InitRender ==
    /\ pc = "idle"
    /\ clock = NoTime
    /\ ticks = 0
    /\ now = NoTime
    /\ retries = 0
    /\ success = FALSE
    /\ attempts = 0
    /\ data = <<>>
    /\ forecast = <<>>
    /\ temps = <<>>
    /\ today = NoDate
    /\ tomorrow = NoDate
    /\ log = ""
    /\ bulletin = <<>>
    /\ audio = <<>>
    /\ \E c \in CodeLists, p \in RenderParts :
          call = [pc |-> "call", input |-> c, part |-> p, codes |-> c,
                  weather |-> "", spoken |-> <<>>, seps |-> <<>>, error |-> ""]

\* metoffice_weather_codes_to_str(codes, part) runs to its return, or to
\* the UnboundLocalError, which comes after the pruning and returns nothing
RenderCall ==
    /\ call.pc = "call"
    /\ LET r == render(call.codes, call.part)
       IN  call' = IF r.error = ""
                   THEN [call EXCEPT !.pc = "returned",
                                     !.codes = pruned(call.codes),
                                     !.weather = r.weather,
                                     !.spoken = r.spoken,
                                     !.seps = r.seps]
                   ELSE [call EXCEPT !.pc = "raised",
                                     !.codes = pruned(call.codes),
                                     !.error = r.error]
    /\ UNCHANGED <<pc, clock, ticks, now, retries, success, attempts, data,
                   forecast, temps, today, tomorrow, log, bulletin, audio>>

NextRender == RenderCall

SpecRender == InitRender /\ [][NextRender]_vars

(***************************************************************************)
(* The aggregator on its own: MetOfficeWeatherForecast built on any series *)
(* of at most MaxSeries observations, in any order and with repeats, whose *)
(* hours sit on both sides of every day-part boundary.                     *)
(***************************************************************************)
\* an observation of date d, hour h and code c; the other fields follow h, c
AggObs(d, h, c) ==
    Obs(d, h, c, 95 + 5 * h, 83 + 5 * h, h % 4, 10 * c)

AggObservations ==
    { AggObs(0, h, c) : h \in {0, 5, 6, 11, 12, 17, 18, 23}, c \in {3, 7} }
        \cup { AggObs(1, h, c) : h \in {6, 17}, c \in {3, 7} }

AggSeries == UNION { [1..n -> AggObservations] : n \in 0..MaxSeries }

InitAgg ==
    /\ pc = "agg_call"
    /\ clock = NoTime
    /\ ticks = 0
    /\ now = NoTime
    /\ retries = 0
    /\ success = FALSE
    /\ attempts = 0
    /\ data \in AggSeries
    /\ forecast = <<>>
    /\ temps = <<>>
    /\ today = NoDate
    /\ tomorrow = NoDate
    /\ log = ""
    /\ bulletin = <<>>
    /\ audio = <<>>
    /\ call = NoCall

\* weather_forecast.get_day_periods_weather() and get_highs_lows() return
AggregateCall ==
    /\ pc = "agg_call"
    /\ forecast' = get_day_periods_weather(data)
    /\ temps' = get_highs_lows(data)
    /\ pc' = "agg_returned"
    /\ UNCHANGED <<clock, ticks, now, retries, success, attempts, data, today,
                   tomorrow, log, bulletin, audio, call>>

NextAgg == AggregateCall

SpecAgg == InitAgg /\ [][NextAgg]_vars

(***************************************************************************)
(* Properties.  Composed holds once the branch on now.hour has run;        *)
(* Index and HighLow are the index and the daily highs and lows as built   *)
(* from the response.                                                      *)
(***************************************************************************)
Composed == pc \in {"composed", "KeyError", "done"}

Produced == pc \in {"composed", "done"}

Index == get_day_periods_weather(data)

HighLow == get_highs_lows(data)

Has(d, dp) == d \in DOMAIN Index /\ dp \in DOMAIN Index[d]

\* the phrase a present period renders to
Phrase(d, dp, part) ==
    metoffice_weather_codes_to_str(Index[d][dp].weather_code, part)

LogOf(tpl) == "Generating " \o tpl \o " bulletin"

\* C1: for every local hour h in 0..23 exactly one of the four templates is
\* selected: morning iff 5 <= h < 11, afternoon iff 11 <= h < 17, evening
\* iff 17 <= h < 24, overnight iff 0 <= h < 5; hour 10 gives the morning
\* template and hour 11 the afternoon one.
C1_TemplateByHour ==
    Composed =>
        LET h == now.hour
        IN  /\ h \in 0..23
            /\ Cardinality({ t \in {"morning", "afternoon", "evening", "overnight"} :
                                 log = LogOf(t) }) = 1
            /\ (log = LogOf("morning"))   <=> (5 <= h /\ h < 11)
            /\ (log = LogOf("afternoon")) <=> (11 <= h /\ h < 17)
            /\ (log = LogOf("evening"))   <=> (17 <= h /\ h < 24)
            /\ (log = LogOf("overnight")) <=> (0 <= h /\ h < 5)
            /\ (Produced /\ 5 <= h /\ h < 11) =>
                   bulletin = morning_bulletin(
                       << Phrase(today, "morning", "day"),
                          Phrase(today, "afternoon", "day") >>, HighLow[today])
            /\ (Produced /\ 11 <= h /\ h < 17) =>
                   bulletin = afternoon_bulletin(
                       << Phrase(today, "afternoon", "day"),
                          Phrase(today, "evening", "day") >>, HighLow[today])
            /\ (Produced /\ 17 <= h /\ h < 24) =>
                   bulletin = evening_bulletin(
                       << Phrase(today, "evening", "day"),
                          Phrase(tomorrow, "overnight", "night"),
                          Phrase(tomorrow, "morning", "day") >>, HighLow[tomorrow])
            /\ (Produced /\ 0 <= h /\ h < 5) =>
                   bulletin = overnight_bulletin(
                       << Phrase(tomorrow, "overnight", "night"),
                          Phrase(tomorrow, "morning", "day"),
                          Phrase(tomorrow, "afternoon", "day") >>, HighLow[tomorrow])

\* C1 witness: the afternoon bulletin composed at hour 11 exactly
C1_Witness ==
    /\ pc = "done"
    /\ now.hour = 11
    /\ log = LogOf("afternoon")
    /\ bulletin[1] = "Sunny with a few clouds this afternoon"

\* the (date, day-part) entries the spec's table requires of each hour range
C2_Required(h, td, tm) ==
    IF 5 <= h /\ h < 11 THEN { <<td, "morning">>, <<td, "afternoon">> }
    ELSE IF 11 <= h /\ h < 17 THEN { <<td, "afternoon">>, <<td, "evening">> }
    ELSE IF 17 <= h /\ h < 24
         THEN { <<td, "evening">>, <<tm, "overnight">>, <<tm, "morning">> }
    ELSE { <<tm, "overnight">>, <<tm, "morning">>, <<tm, "afternoon">> }

\* the date whose high/low record the spec's table requires of each hour range
C2_RequiredDate(h, td, tm) == IF 5 <= h /\ h < 17 THEN td ELSE tm

C2_Missing ==
    \/ \E r \in C2_Required(now.hour, today, tomorrow) : ~Has(r[1], r[2])
    \/ C2_RequiredDate(now.hour, today, tomorrow) \notin DOMAIN HighLow

\* C2: whenever an entry the hour's template requires is absent from the
\* index, composition ends in the missing-data error, no bulletin string
\* exists and generate_audio is not called; and with nothing missing the
\* bulletin is produced.
C2_MissingDataFails ==
    Composed =>
        /\ C2_Missing => (pc = "KeyError" /\ bulletin = <<>> /\ audio = <<>>)
        /\ pc = "KeyError" => (C2_Missing /\ bulletin = <<>> /\ audio = <<>>)

\* C2 witness: hour 20, today's evening and tomorrow's morning present,
\* tomorrow's overnight absent
C2_Witness ==
    /\ pc = "KeyError"
    /\ now.hour = 20
    /\ Has(today, "evening")
    /\ Has(tomorrow, "morning")
    /\ ~Has(tomorrow, "overnight")

\* C3: the morning bulletin ends with "with temperatures reaching <high>
\* degrees.", <high> being the rounded high of today's DailyHighLow alone.
C3_MorningHighOnly ==
    (Produced /\ log = LogOf("morning")) =>
        bulletin[Len(bulletin)] =
            "with temperatures reaching " \o ToString(HighLow[today].high)
                \o " degrees."

\* the collapse clause of each comparing template
C4_Staying == "staying much the same throughout the afternoon in North East Somerset, "

C4_Continuing == ", continuing into the evening"

\* C4 as stated: in every template, two adjacent periods with the identical
\* phrase give a collapsed transition and the phrase is not repeated.
C4_CollapseEverywhere ==
    Produced =>
        /\ log = LogOf("morning") =>
              (Phrase(today, "morning", "day") = Phrase(today, "afternoon", "day")
                  => bulletin[2] = C4_Staying)
        /\ log = LogOf("afternoon") =>
              (Phrase(today, "afternoon", "day") = Phrase(today, "evening", "day")
                  => bulletin[2] = C4_Continuing)
        /\ log = LogOf("evening") =>
              /\ Phrase(today, "evening", "day") = Phrase(tomorrow, "overnight", "night")
                    => bulletin[2] # Phrase(tomorrow, "overnight", "night")
                           \o " overnight with lows of "
                           \o ToString(HighLow[tomorrow].low) \o " degrees. "
              /\ Phrase(tomorrow, "overnight", "night") = Phrase(tomorrow, "morning", "day")
                    => bulletin[3] # "Tomorrow we will expect "
                           \o Phrase(tomorrow, "morning", "day") \o " with highs of "
                           \o ToString(HighLow[tomorrow].high) \o "."
        /\ log = LogOf("overnight") =>
              /\ Phrase(tomorrow, "morning", "day") = Phrase(tomorrow, "afternoon", "day")
                    => Len(bulletin) = 3
                       /\ bulletin[2] = "Tomorrow we are expecting "
                              \o Phrase(tomorrow, "morning", "day") \o ", "
                       /\ bulletin[3] = "with temperatures reaching highs of "
                              \o ToString(HighLow[tomorrow].high) \o " degrees."
              /\ Phrase(tomorrow, "overnight", "night") = Phrase(tomorrow, "morning", "day")
                    => bulletin[2] \notin
                           { "Tomorrow we are expecting "
                                 \o Phrase(tomorrow, "morning", "day") \o ", ",
                             "Tomorrow morning will start with "
                                 \o Phrase(tomorrow, "morning", "day") \o ", " }

\* C4 amended: in the morning, afternoon and overnight templates, when the
\* two phrases the template compares (today's morning and afternoon, today's
\* afternoon and evening, tomorrow's morning and afternoon) are the same
\* string, the collapsed clause is used and the second phrase is not emitted
\* again; the phrases are compared as strings, whatever the code lists.  The
\* evening template always emits its three phrases and the overnight
\* template always emits the overnight phrase.
C4_CollapseCompared ==
    Produced =>
        /\ log = LogOf("morning") =>
              (Phrase(today, "morning", "day") = Phrase(today, "afternoon", "day")
                  => /\ Len(bulletin) = 3
                     /\ bulletin[1] = Phrase(today, "morning", "day") \o " this morning, "
                     /\ bulletin[2] = C4_Staying)
        /\ log = LogOf("afternoon") =>
              (Phrase(today, "afternoon", "day") = Phrase(today, "evening", "day")
                  => /\ Len(bulletin) = 3
                     /\ bulletin[1] = Phrase(today, "afternoon", "day") \o " this afternoon"
                     /\ bulletin[2] = C4_Continuing)
        /\ log = LogOf("overnight") =>
              (Phrase(tomorrow, "morning", "day") = Phrase(tomorrow, "afternoon", "day")
                  => /\ Len(bulletin) = 3
                     /\ bulletin[2] = "Tomorrow we are expecting "
                            \o Phrase(tomorrow, "morning", "day") \o ", "
                     /\ bulletin[3] = "with temperatures reaching highs of "
                            \o ToString(HighLow[tomorrow].high) \o " degrees.")
        /\ log = LogOf("overnight") =>
              bulletin[1] = Phrase(tomorrow, "overnight", "night")
                  \o " overnight with lows of "
                  \o ToString(HighLow[tomorrow].low) \o " degrees. "
        /\ log = LogOf("evening") =>
              /\ Len(bulletin) = 3
              /\ bulletin[1] = Phrase(today, "evening", "day") \o " this evening. "
              /\ bulletin[2] = Phrase(tomorrow, "overnight", "night")
                     \o " overnight with lows of "
                     \o ToString(HighLow[tomorrow].low) \o " degrees. "
              /\ bulletin[3] = "Tomorrow we will expect "
                     \o Phrase(tomorrow, "morning", "day") \o " with highs of "
                     \o ToString(HighLow[tomorrow].high) \o "."

\* C4 witness: a morning bulletin collapsed on equal phrases that come from
\* different code lists
C4_Witness ==
    /\ pc = "composed"
    /\ log = LogOf("morning")
    /\ Index[today]["morning"].weather_code = <<3, 7>>
    /\ Index[today]["afternoon"].weather_code = <<3>>
    /\ bulletin[1] = "Sunny with a few clouds this morning, "
    /\ bulletin[2] = C4_Staying

\* the skip set the spec gives each part
C5_Skip(part) == IF part = "night" THEN day_skip_codes ELSE night_skip_codes

\* whether code c of the input list is to be narrated
C5_Kept(c, input, part) ==
    /\ c \notin C5_Skip(part)
    /\ ~(c \in {7, 2} /\ \E k \in 1..Len(input) : input[k] = 3)

\* C5: the codes narrated are exactly the input codes, in input order, that
\* are not in the part's skip set and are not a 7 or a 2 beside a 3, every
\* occurrence included; render([3,7,2], day) is the phrase of code 3 alone
\* and render([1], night) is the empty string.
C5_NarratedCodes ==
    (call.pc \in {"returned", "raised"} /\ call.part \in {"day", "night"}) =>
        /\ call.pc = "returned"
        /\ call.spoken =
               SelectSeq(call.input, LAMBDA c : C5_Kept(c, call.input, call.part))
        /\ (call.input = <<3, 7, 2>> /\ call.part = "day")
               => call.weather = "Sunny with a few clouds"
        /\ (call.input = <<1>> /\ call.part = "night") => call.weather = ""

\* C5 witness: repeated 7s around a 3 are all removed
C5_Witness ==
    /\ call.pc = "returned"
    /\ call.input = <<7, 3, 7, 2>>
    /\ call.part = "day"
    /\ call.spoken = <<3>>
    /\ call.weather = "Sunny with a few clouds"

\* the catalog phrase of a code, "Some weather" without one
C6_Text(c) == IF c \in DOMAIN values THEN values[c] ELSE "Some weather"

C6_Sep(k) == IF k = 2 THEN ", with " ELSE IF k = 3 THEN " and " ELSE ""

RECURSIVE C6_Joined(_, _)
C6_Joined(spoken, k) ==
    IF k > Len(spoken) THEN ""
    ELSE C6_Sep(k) \o C6_Text(spoken[k]) \o C6_Joined(spoken, k + 1)

C6_JoinRule ==
    /\ Len(call.seps) = Len(call.spoken)
    /\ \A k \in 1..Len(call.seps) : call.seps[k] = C6_Sep(k)
    /\ call.weather = C6_Joined(call.spoken, 1)

\* C6 as stated: the join rule, and render([9,12,15], day) is
\* "<phrase9>, with <phrase12> and <phrase15>".
C6_JoinAsStated ==
    (call.pc = "returned" /\ call.part \in {"day", "night"}) =>
        /\ C6_JoinRule
        /\ (call.input = <<9, 12, 15>> /\ call.part = "day")
               => call.weather = "Light rain showers, with Light rain and Heavy rain"

\* C6 amended: the join rule holds; render([9,12,15], day) is
\* "<phrase12>, with <phrase15>", code 9 being in the skip set of day, and a
\* list of three codes narrated for day, such as [3,12,15], renders to
\* "<phrase3>, with <phrase12> and <phrase15>".
C6_Join ==
    (call.pc = "returned" /\ call.part \in {"day", "night"}) =>
        /\ C6_JoinRule
        /\ (call.input = <<9, 12, 15>> /\ call.part = "day")
               => call.weather = "Light rain, with Heavy rain"
        /\ (call.input = <<3, 12, 15>> /\ call.part = "day")
               => call.weather = "Sunny with a few clouds, with Light rain and Heavy rain"

\* C6 witness: four codes narrated after a skipped one, one of the four
\* without a catalog entry
C6_Witness ==
    /\ call.pc = "returned"
    /\ call.input = <<9, 1, 31, 12, 15>>
    /\ call.part = "day"
    /\ call.spoken = <<1, 31, 12, 15>>
    /\ call.weather = "Clear and sunny, with Some weather and Light rainHeavy rain"

\* scheme B as the spec states it
C7_SchemeB(hour) ==
    IF hour \in 6..11 THEN "morning"
    ELSE IF hour \in 12..17 THEN "afternoon"
    ELSE IF hour \in 18..23 THEN "evening"
    ELSE "overnight"

C7_Bucket(d, dp) ==
    { k \in 1..Len(data) :
          data[k].time.date = d /\ C7_SchemeB(data[k].time.hour) = dp }

\* C7: of a non-empty series every observation falls in one bucket, that of
\* its date and of its scheme B day-part; the index holds a summary for a
\* (date, day-part) iff the bucket has an observation, and the summary's
\* codes are the distinct codes of the bucket in ascending order.
C7_Buckets ==
    (pc \in {"agg_returned", "indexed", "today", "dated"} /\ data # <<>>) =>
        /\ \A d \in DOMAIN forecast :
              LET parts == day_parts_of(_get_daily_data(data)[d])
              IN  \A k \in 1..Len(data) :
                     { dp \in DOMAIN parts :
                           data[k].time.date = d
                           /\ data[k] \in Range(parts[dp]) }
                       = IF data[k].time.date = d
                         THEN { C7_SchemeB(data[k].time.hour) } ELSE {}
        /\ \A k \in 1..Len(data) : data[k].time.date \in DOMAIN forecast
        /\ \A d \in DOMAIN forecast :
              \A dp \in {"morning", "afternoon", "evening", "overnight"} :
                  (dp \in DOMAIN forecast[d]) <=> (C7_Bucket(d, dp) # {})
        /\ \A d \in DOMAIN forecast :
              DOMAIN forecast[d] \subseteq {"morning", "afternoon", "evening", "overnight"}
        /\ \A d \in DOMAIN forecast : \A dp \in DOMAIN forecast[d] :
              LET wc == forecast[d][dp].weather_code
              IN  /\ \A i \in 1..(Len(wc) - 1) : wc[i] < wc[i + 1]
                  /\ Range(wc) = { data[k].significantWeatherCode :
                                       k \in C7_Bucket(d, dp) }

\* C7 witness: two observations at hour 17 with code 7 around one at hour
\* 12 with code 3 make one afternoon bucket, its codes distinct and sorted
C7_Witness ==
    /\ pc = "agg_returned"
    /\ data = << AggObs(0, 17, 7), AggObs(0, 12, 3), AggObs(0, 17, 7) >>
    /\ DOMAIN forecast = {0}
    /\ DOMAIN forecast[0] = {"afternoon"}
    /\ forecast[0]["afternoon"].weather_code = <<3, 7>>

\* C8: once bulletin_metoffice has composed or failed to compose, the index
\* has the dates, the day-parts and the code lists it was built with.
C8_IndexUnchanged == Composed => forecast = Index

\* C8, the code lists alone: those of the dates the index was built with
C8_CodeListsUnchanged ==
    Composed =>
        \A d \in DOMAIN Index : \A dp \in DOMAIN Index[d] :
            forecast[d][dp].weather_code = Index[d][dp].weather_code

\* C9: at most 5 requests are made, none after the first that succeeds; the
\* loop ends, as each pass is one more request and neither the request nor
\* the sleep after a failed one can block; the call returns only after a success,
\* and after 5 failures the process has exited with nothing aggregated,
\* composed or synthesised.
C9_Retries ==
    /\ [](attempts <= 5)
    /\ [](pc = "fetch" => (attempts < 5 /\ ENABLED (RequestOk \/ RequestFail)))
    /\ [](pc = "sleep" => ENABLED Sleep)
    /\ [][(pc = "fetch" /\ pc' # "fetch") => attempts' = attempts + 1]_vars
    /\ [][(pc = "sleep" /\ pc' # "sleep") => pc' \in {"fetch", "exit"}]_vars
    /\ [][success => attempts' <= attempts]_vars
    /\ [](pc = "fetched" => (success /\ attempts \in 1..5))
    /\ [](pc = "exit" => /\ attempts = 5
                         /\ ~success
                         /\ data = <<>> /\ forecast = <<>> /\ temps = <<>>
                         /\ log = "" /\ bulletin = <<>> /\ audio = <<>>)
    /\ [][pc = "exit" => pc' = "exit"]_vars

\* C9 witness: all five requests failed
C9_Witness == pc = "exit" /\ attempts = 5 /\ retries = 0

\* C10: the hour that selects the template and the dates looked up belong
\* to one clock reading: today is the date of now, tomorrow the day after.
C10_SingleInstant ==
    pc \in {"dated", "composed", "KeyError", "done"} =>
        /\ today = now.day
        /\ tomorrow = now.day + 1

====
